---- MODULE Spec2Model ----
(***************************************************************************)
(* SparseSetValue (ssad_impl) of SparseSetAbstractDomain.h: the sparse-set *)
(* representation of Briggs & Torczon with a dense array of the present    *)
(* elements and a sparse array mapping an element to its dense slot.       *)
(*                                                                         *)
(* A std::vector is modelled as a function over 0 .. size-1.  Both vectors *)
(* are value-initialised by the constructor and by resize, so every slot   *)
(* starts at 0.  An access outside a vector is undefined behaviour; the    *)
(* operators record it in the field ub and the claims show it unreachable. *)
(***************************************************************************)
EXTENDS Integers, FiniteSets, Sequences, TLC

\* Largest universe size an instance is constructed with.
MaxCap == 2

\* Two instances: the target of an operation and its operand.
Pair == {1, 2}

\* Three instances, for the relations between three values.
Triple == {1, 2, 3}

\* Arguments of add/remove/contains: every element of the largest universe
\* and one value beyond every capacity.
Elems == 0 .. MaxCap

\* A vector of n value-initialised slots.
ZeroVec(n) == [i \in 0 .. n - 1 |-> 0]

\* std::vector::resize(n) for n >= size: old slots kept, new ones zero.
Resize(v, n) == [i \in 0 .. n - 1 |-> IF i \in DOMAIN v THEN v[i] ELSE 0]

\* SparseSetValue(): capacity 0, both vectors empty.
DefaultValue ==
  [m_capacity |-> 0, m_element_num |-> 0,
   m_dense |-> ZeroVec(0), m_sparse |-> ZeroVec(0), ub |-> FALSE]

\* SparseSetValue(size_t max_size).
NewValue(max_size) ==
  [m_capacity |-> max_size, m_element_num |-> 0,
   m_dense |-> ZeroVec(max_size), m_sparse |-> ZeroVec(max_size), ub |-> FALSE]

\* size()
size(s) == s.m_element_num

\* elements(): the vector built from [begin(), end()), as a sequence.
elements(s) == [k \in 1 .. s.m_element_num |-> s.m_dense[k - 1]]

\* contains() trusting the sparse entry alone, without validating it against
\* the dense slot it names.
contains_sparse_only(s, element) ==
  IF element >= s.m_capacity THEN FALSE
  ELSE s.m_sparse[element] < s.m_element_num

\* contains(element)
contains(s, element) ==
  IF element >= s.m_capacity THEN FALSE
  ELSE LET dense_idx == s.m_sparse[element]
       IN  dense_idx < s.m_element_num /\ s.m_dense[dense_idx] = element

\* clear()
clear(s) == [s EXCEPT !.m_element_num = 0]

\* add() that leaves the sparse entry of the new element as it was.
add_no_sparse(s, element) ==
  IF element < s.m_capacity
  THEN LET dense_idx == s.m_sparse[element]
           n == s.m_element_num
       IN  IF dense_idx >= s.m_element_num \/ s.m_dense[dense_idx] # element
           THEN IF n \in DOMAIN s.m_dense
                THEN [s EXCEPT !.m_dense[n] = element,
                               !.m_element_num = n + 1]
                ELSE [s EXCEPT !.ub = TRUE]
           ELSE s
  ELSE s

\* add() that appends without testing whether the element is present.
add_always_append(s, element) ==
  IF element < s.m_capacity
  THEN LET n == s.m_element_num
       IN  IF n \in DOMAIN s.m_dense
           THEN [s EXCEPT !.m_sparse[element] = n,
                          !.m_dense[n] = element,
                          !.m_element_num = n + 1]
           ELSE [s EXCEPT !.ub = TRUE]
  ELSE s

\* add() that enlarges the universe to hold an element beyond the capacity.
add_grow(s, element) ==
  LET g == IF element < s.m_capacity THEN s
           ELSE [s EXCEPT !.m_dense = Resize(s.m_dense, element + 1),
                          !.m_sparse = Resize(s.m_sparse, element + 1),
                          !.m_capacity = element + 1]
      dense_idx == g.m_sparse[element]
      n == g.m_element_num
  IN  IF dense_idx >= n \/ g.m_dense[dense_idx] # element
      THEN [g EXCEPT !.m_sparse[element] = n,
                     !.m_dense[n] = element,
                     !.m_element_num = n + 1]
      ELSE g

\* add() that stores the count after the insertion in the sparse entry.
add_sparse_after(s, element) ==
  IF element < s.m_capacity
  THEN LET dense_idx == s.m_sparse[element]
           n == s.m_element_num
       IN  IF dense_idx >= s.m_element_num \/ s.m_dense[dense_idx] # element
           THEN IF n \in DOMAIN s.m_dense
                THEN [s EXCEPT !.m_sparse[element] = n + 1,
                               !.m_dense[n] = element,
                               !.m_element_num = n + 1]
                ELSE [s EXCEPT !.ub = TRUE]
           ELSE s
  ELSE s

\* add(element)
add(s, element) ==
  IF element < s.m_capacity
  THEN LET dense_idx == s.m_sparse[element]
           n == s.m_element_num
       IN  IF dense_idx >= s.m_element_num \/ s.m_dense[dense_idx] # element
           THEN IF n \in DOMAIN s.m_dense
                THEN [s EXCEPT !.m_sparse[element] = n,
                               !.m_dense[n] = element,
                               !.m_element_num = n + 1]
                ELSE [s EXCEPT !.ub = TRUE]
           ELSE s
  ELSE s

\* remove() that moves the last element without fixing its sparse entry.
remove_stale_sparse(s, element) ==
  IF element < s.m_capacity
  THEN LET dense_idx == s.m_sparse[element]
           n == s.m_element_num
       IN  IF dense_idx < n /\ s.m_dense[dense_idx] = element
           THEN [s EXCEPT !.m_element_num = n - 1,
                          !.m_dense[dense_idx] = s.m_dense[n - 1]]
           ELSE s
  ELSE s

\* remove() trusting the sparse entry alone.
remove_sparse_only(s, element) ==
  IF element < s.m_capacity
  THEN LET dense_idx == s.m_sparse[element]
           n == s.m_element_num
       IN  IF dense_idx < n
           THEN LET last_element == s.m_dense[n - 1]
                IN  [s EXCEPT !.m_element_num = n - 1,
                              !.m_dense[dense_idx] = last_element,
                              !.m_sparse[last_element] = dense_idx]
           ELSE s
  ELSE s

\* remove() that shortens the dense sequence without moving the last element
\* into the vacated slot.
remove_drop_last(s, element) ==
  IF element < s.m_capacity
  THEN LET dense_idx == s.m_sparse[element]
           n == s.m_element_num
       IN  IF dense_idx < n /\ s.m_dense[dense_idx] = element
           THEN [s EXCEPT !.m_element_num = n - 1]
           ELSE s
  ELSE s

\* remove(element)
remove(s, element) ==
  IF element < s.m_capacity
  THEN LET dense_idx == s.m_sparse[element]
           n == s.m_element_num
       IN  IF dense_idx < n /\ s.m_dense[dense_idx] = element
           THEN LET last_element == s.m_dense[n - 1]
                IN  IF last_element \in DOMAIN s.m_sparse
                    THEN [s EXCEPT !.m_element_num = n - 1,
                                   !.m_dense[dense_idx] = last_element,
                                   !.m_sparse[last_element] = dense_idx]
                    ELSE [s EXCEPT !.ub = TRUE]
           ELSE s
  ELSE s

\* The elements of the set, as contains() reports them.
ElemSet(s) == {e \in Elems : contains(s, e)}

\* leq() whose loop stops one slot early.
leq_off_by_one(s, other) ==
  IF s.m_element_num > other.m_element_num THEN FALSE
  ELSE \A i \in 0 .. s.m_element_num - 2 : contains(other, s.m_dense[i])

\* leq() whose early exit also rejects equal sizes.
leq_strict(s, other) ==
  IF s.m_element_num >= other.m_element_num THEN FALSE
  ELSE \A i \in 0 .. s.m_element_num - 1 : contains(other, s.m_dense[i])

\* leq(other): the loop over m_dense[0 .. m_element_num-1].
leq(s, other) ==
  IF s.m_element_num > other.m_element_num THEN FALSE
  ELSE \A i \in 0 .. s.m_element_num - 1 : contains(other, s.m_dense[i])

\* equals(other)
equals(s, other) == (s.m_element_num = other.m_element_num) /\ leq(s, other)

\* The range-for of join_with stopping before the operand's last element.
RECURSIVE join_loop_stop_early(_, _, _, _, _)
join_loop_stop_early(s, other, alias, k, cnt) ==
  IF k >= cnt - 1 THEN s
  ELSE LET o == IF alias THEN s ELSE other
       IN  join_loop_stop_early(add(s, o.m_dense[k]), other, alias, k + 1, cnt)

\* The range-for of join_with: k walks other's dense slots from begin() to the
\* end() taken when the loop starts (cnt); alias says other is this instance,
\* whose slots are then read from the instance being modified.
RECURSIVE join_loop(_, _, _, _, _)
join_loop(s, other, alias, k, cnt) ==
  IF k >= cnt THEN s
  ELSE LET o == IF alias THEN s ELSE other
       IN  join_loop(add(s, o.m_dense[k]), other, alias, k + 1, cnt)

\* join_with() that adds the elements without growing the universe first.
join_with_no_growth(s, other, alias) ==
  join_loop(s, other, alias, 0, other.m_element_num)

\* join_with() that takes over the operand's capacity whichever is larger.
join_with_take_capacity(s, other, alias) ==
  LET sized == [s EXCEPT !.m_dense = Resize(s.m_dense, other.m_capacity),
                         !.m_sparse = Resize(s.m_sparse, other.m_capacity),
                         !.m_capacity = other.m_capacity,
                         !.m_element_num = IF s.m_element_num > other.m_capacity
                                           THEN other.m_capacity
                                           ELSE s.m_element_num]
  IN  join_loop(sized, other, alias, 0, other.m_element_num)

\* join_with() that adds the operand's elements only when it did not grow.
join_with_grow_or_add(s, other, alias) ==
  IF other.m_capacity > s.m_capacity
  THEN [s EXCEPT !.m_dense = Resize(s.m_dense, other.m_capacity),
                 !.m_sparse = Resize(s.m_sparse, other.m_capacity),
                 !.m_capacity = other.m_capacity]
  ELSE join_loop(s, other, alias, 0, other.m_element_num)

\* join_with(other)
join_with(s, other, alias) ==
  LET grown == IF other.m_capacity > s.m_capacity
               THEN [s EXCEPT !.m_dense = Resize(s.m_dense, other.m_capacity),
                              !.m_sparse = Resize(s.m_sparse, other.m_capacity),
                              !.m_capacity = other.m_capacity]
               ELSE s
  IN  join_loop(grown, other, alias, 0, other.m_element_num)

\* widen_with() that replaces the receiver's elements by the operand's.
widen_with_overwrite(s, other, alias) == join_with(clear(s), other, alias)

\* widen_with(other)
widen_with(s, other, alias) == join_with(s, other, alias)

\* The loop of meet_with advancing the cursor after a removal as well.
RECURSIVE meet_loop_advance(_, _, _, _)
meet_loop_advance(s, other, alias, it) ==
  IF it >= s.m_element_num THEN s
  ELSE LET o == IF alias THEN s ELSE other
       IN  IF ~contains(o, s.m_dense[it])
           THEN meet_loop_advance(remove(s, s.m_dense[it]), other, alias, it + 1)
           ELSE meet_loop_advance(s, other, alias, it + 1)

\* The loop of meet_with: it is the cursor, end() is re-read every iteration.
RECURSIVE meet_loop(_, _, _, _)
meet_loop(s, other, alias, it) ==
  IF it = s.m_element_num THEN s
  ELSE LET o == IF alias THEN s ELSE other
       IN  IF ~contains(o, s.m_dense[it])
           THEN meet_loop(remove(s, s.m_dense[it]), other, alias, it)
           ELSE meet_loop(s, other, alias, it + 1)

\* meet_with(other)
meet_with(s, other, alias) == meet_loop(s, other, alias, 0)

\* narrow_with(other)
narrow_with(s, other, alias) == meet_with(s, other, alias)

VARIABLES
  sets,   \* the instances: sets[i] is one SparseSetValue
  last,   \* the last operation performed, with the target as it was before
  kind,   \* kind[i]: the kind of the domain that holds sets[i]
  chain,  \* an iteration X := X.widen_with(operand): changes of X so far
  loop    \* the meet_with call in progress: cursor and iterations

vars == <<sets, last, kind, chain, loop>>

Insts == DOMAIN sets

NoOp == [op |-> "none", self |-> 0, other |-> 0, element |-> 0, pre |-> DefaultValue]

\* A freshly constructed instance: the default constructor (capacity 0) or
\* an explicit universe size.
Fresh == {DefaultValue} \cup {NewValue(c) : c \in 0 .. MaxCap}

\* No iteration of widen_with under way.
NoChain == [changes |-> 0, bound |-> 0]

\* No meet_with call in progress.
Idle == [phase |-> "idle", self |-> 0, other |-> 0, it |-> 0, iters |-> 0,
         entry |-> 0, pit |-> 0, pcount |-> 0, pre |-> DefaultValue]

\* The representations on their own: every instance is a Value.
Bare(S) ==
  /\ kind = [i \in S |-> "Value"]
  /\ chain = NoChain
  /\ loop = Idle

Init ==
  /\ sets \in [Pair -> Fresh]
  /\ last = NoOp
  /\ Bare(Pair)

\* The call record switched off, for the properties that read the instances
\* only.
Unrecorded == [NoOp EXCEPT !.op = "unrecorded"]

InitPlain ==
  /\ sets \in [Pair -> Fresh]
  /\ last = Unrecorded
  /\ Bare(Pair)

InitOrder ==
  /\ sets \in [Triple -> Fresh]
  /\ last = Unrecorded
  /\ Bare(Triple)

Recorded(op, i, j, e) ==
  last' = IF last = Unrecorded THEN last
          ELSE [op |-> op, self |-> i, other |-> j, element |-> e, pre |-> sets[i]]

\* A call on the representation: recorded, and nothing else is touched.
Record(op, i, j, e) ==
  /\ Recorded(op, i, j, e)
  /\ UNCHANGED <<kind, chain, loop>>

Add(i, e) ==
  /\ sets' = [sets EXCEPT ![i] = add(sets[i], e)]
  /\ Record("add", i, 0, e)

Remove(i, e) ==
  /\ sets' = [sets EXCEPT ![i] = remove(sets[i], e)]
  /\ Record("remove", i, 0, e)

Clear(i) ==
  /\ sets' = [sets EXCEPT ![i] = clear(sets[i])]
  /\ Record("clear", i, 0, 0)

JoinWith(i, j) ==
  /\ sets' = [sets EXCEPT ![i] = join_with(sets[i], sets[j], i = j)]
  /\ Record("join_with", i, j, 0)

WidenWith(i, j) ==
  /\ sets' = [sets EXCEPT ![i] = widen_with(sets[i], sets[j], i = j)]
  /\ Record("widen_with", i, j, 0)

MeetWith(i, j) ==
  /\ sets' = [sets EXCEPT ![i] = meet_with(sets[i], sets[j], i = j)]
  /\ Record("meet_with", i, j, 0)

NarrowWith(i, j) ==
  /\ sets' = [sets EXCEPT ![i] = narrow_with(sets[i], sets[j], i = j)]
  /\ Record("narrow_with", i, j, 0)

Next ==
  \/ \E i \in Insts, e \in Elems : Add(i, e)
  \/ \E i \in Insts, e \in Elems : Remove(i, e)
  \/ \E i \in Insts : Clear(i)
  \/ \E i \in Insts, j \in Insts : JoinWith(i, j)
  \/ \E i \in Insts, j \in Insts : WidenWith(i, j)
  \/ \E i \in Insts, j \in Insts : MeetWith(i, j)
  \/ \E i \in Insts, j \in Insts : NarrowWith(i, j)

\* Two instances under every sequence of operations, the last call recorded.
Spec == Init /\ [][Next]_vars

\* Two instances under every sequence of operations.
SpecPlain == InitPlain /\ [][Next]_vars

\* Three instances under every sequence of operations.
SpecOrder == InitOrder /\ [][Next]_vars

(***************************************************************************)
(* Vocabulary of the properties.                                           *)
(***************************************************************************)

\* The target of the last operation, as it is now and as it was before.
Post == sets[last.self]
Pre == last.pre

\* The operand of the last binary operation as it was when the call began.
Operand == IF last.other = last.self THEN last.pre ELSE sets[last.other]

Max(a, b) == IF a >= b THEN a ELSE b

Range(f) == {f[x] : x \in DOMAIN f}

IsOp(names) == last.op \in names

(***************************************************************************)
(* Invariants of the representation.                                       *)
(***************************************************************************)

\* C1: in every reachable state every valid dense slot is pointed back to by
\* the sparse index: for all i < count, sparse[dense[i]] = i (the element
\* of the slot lies inside the sparse array).
C1_DenseSlotsPointedBack ==
  \A i \in Insts :
    \A k \in 0 .. sets[i].m_element_num - 1 :
      /\ k \in DOMAIN sets[i].m_dense
      /\ sets[i].m_dense[k] \in DOMAIN sets[i].m_sparse
      /\ sets[i].m_sparse[sets[i].m_dense[k]] = k

\* C1 witness: a non-empty instance whose element of a valid slot k also
\* sits in a stale slot beyond count (it was moved down by a remove, or added
\* again after a clear) while its sparse entry names the valid slot.
C1_Witness ==
  \E i \in Insts :
    \E k \in 0 .. sets[i].m_element_num - 1 :
      \E l \in sets[i].m_element_num .. sets[i].m_capacity - 1 :
        /\ sets[i].m_dense[k] = sets[i].m_dense[l]
        /\ sets[i].m_dense[k] # 0
        /\ sets[i].m_sparse[sets[i].m_dense[k]] = k

\* C2: size() equals the number of elements e with contains(e) and the
\* length of elements(); elements() lists exactly the contained elements,
\* none of them twice.
C2_SizeCountsContained ==
  \A i \in Insts :
    /\ size(sets[i]) = Cardinality(ElemSet(sets[i]))
    /\ size(sets[i]) = Len(elements(sets[i]))
    /\ Range(elements(sets[i])) = ElemSet(sets[i])
    /\ \A k, l \in 1 .. Len(elements(sets[i])) :
         elements(sets[i])[k] = elements(sets[i])[l] => k = l

\* C2 witness: an absent element e of the universe that was present before
\* (a stale dense slot still holds it) and whose sparse entry names a valid
\* dense slot, now holding another element.
C2_Witness ==
  \E i \in Insts, e \in Elems :
    /\ e < sets[i].m_capacity
    /\ ~contains(sets[i], e)
    /\ sets[i].m_sparse[e] < sets[i].m_element_num
    /\ \E l \in sets[i].m_element_num .. sets[i].m_capacity - 1 :
         sets[i].m_dense[l] = e /\ e # 0

(***************************************************************************)
(* meet_with and join_with.                                                *)
(***************************************************************************)

\* C3: after A.meet_with(B) (and narrow_with), A contains e iff A contained e
\* before the call and B contains e, whatever the two capacities.
C3_MeetIsIntersection ==
  IsOp({"meet_with", "narrow_with"}) =>
    /\ ElemSet(Post) = ElemSet(Pre) \cap ElemSet(Operand)
    /\ ~Post.ub

\* C3 witness: a meet_with of two instances of different capacities removed
\* the element of the first slot, and the element swapped into that slot
\* from the end was not in the operand either.
C3_Witness ==
  /\ IsOp({"meet_with"})
  /\ last.other # last.self
  /\ Pre.m_capacity # Operand.m_capacity
  /\ Pre.m_element_num >= 2
  /\ ~contains(Operand, Pre.m_dense[0])
  /\ ~contains(Operand, Pre.m_dense[Pre.m_element_num - 1])

\* C4: after A.join_with(B), the elements of A are those of A before the
\* call together with those of B, and the capacity of A is the larger of the
\* two capacities.
C4_JoinIsUnion ==
  IsOp({"join_with"}) =>
    /\ ElemSet(Post) = ElemSet(Pre) \cup ElemSet(Operand)
    /\ Post.m_capacity = Max(Pre.m_capacity, Operand.m_capacity)
    /\ ~Post.ub

\* C4 witness: a join_with of a non-empty set with an operand of larger
\* capacity, holding an element beyond the old capacity.
C4_Witness ==
  /\ IsOp({"join_with"})
  /\ Operand.m_capacity > Pre.m_capacity
  /\ Pre.m_element_num >= 1
  /\ \E e \in ElemSet(Operand) : e >= Pre.m_capacity
  /\ Post.m_element_num = Pre.m_element_num + Operand.m_element_num

(***************************************************************************)
(* add and remove.                                                         *)
(***************************************************************************)

\* C5: for every e < capacity, contains(e) holds right after add(e) and does
\* not hold right after a following remove(e); in every reachable state.
C5_AddThenRemove ==
  /\ IsOp({"add"}) /\ last.element < Pre.m_capacity => contains(Post, last.element)
  /\ IsOp({"remove"}) => ~contains(Post, last.element)
  /\ \A i \in Insts, e \in Elems :
       e < sets[i].m_capacity =>
         /\ contains(add(sets[i], e), e)
         /\ ~contains(remove(add(sets[i], e), e), e)

\* C5 witness: add(e) has just inserted an element that was absent and whose
\* stale sparse entry named a valid slot of another element.
C5_Witness ==
  /\ IsOp({"add"})
  /\ last.element < Pre.m_capacity
  /\ ~contains(Pre, last.element)
  /\ Pre.m_sparse[last.element] < Pre.m_element_num
  /\ contains(Post, last.element)

\* C6: in every reachable state 0 <= count <= capacity, both arrays have
\* capacity slots, and no operation has written or read outside an array
\* (add writes dense[count] only while count < capacity).
C6_CountWithinCapacity ==
  \A i \in Insts :
    /\ 0 <= sets[i].m_element_num
    /\ sets[i].m_element_num <= sets[i].m_capacity
    /\ DOMAIN sets[i].m_dense = 0 .. sets[i].m_capacity - 1
    /\ DOMAIN sets[i].m_sparse = 0 .. sets[i].m_capacity - 1
    /\ ~sets[i].ub

\* C6 witness: a full instance, count = capacity, whose last dense slot was
\* written by add, next to an instance of another capacity.
C6_Witness ==
  \E i, j \in Insts :
    /\ sets[i].m_capacity >= 2
    /\ sets[i].m_element_num = sets[i].m_capacity
    /\ sets[i].m_dense[sets[i].m_capacity - 1] # 0
    /\ sets[j].m_capacity # sets[i].m_capacity

\* C7: add(e) with e >= capacity changes nothing (elements, count, both
\* arrays, capacity) and contains(e) stays false.
C7_AddBeyondCapacityIgnored ==
  IsOp({"add"}) /\ last.element >= Pre.m_capacity =>
    /\ Post = Pre
    /\ ~contains(Post, last.element)

\* C7 witness: add(e) with e >= capacity on a non-empty set.
C7_Witness ==
  /\ IsOp({"add"})
  /\ last.element >= Pre.m_capacity
  /\ Pre.m_element_num >= 1

\* C8: remove(e) of an element that is not present changes nothing.
C8_RemoveAbsentNoOp ==
  IsOp({"remove"}) /\ ~contains(Pre, last.element) => Post = Pre

\* C8 witness: remove(e) of an absent e < capacity whose stale sparse entry
\* names a valid dense slot.
C8_Witness ==
  /\ IsOp({"remove"})
  /\ last.element < Pre.m_capacity
  /\ ~contains(Pre, last.element)
  /\ Pre.m_sparse[last.element] < Pre.m_element_num

(***************************************************************************)
(* leq and equals.                                                         *)
(***************************************************************************)

\* C9: A.leq(B) is true iff every element of A is contained in B, for any
\* two instances, whatever their capacities and dense orders.
C9_LeqIsInclusion ==
  \A i, j \in Insts :
    leq(sets[i], sets[j]) <=> ElemSet(sets[i]) \subseteq ElemSet(sets[j])

\* C9 witness: two non-empty instances of different capacities, the first
\* included in the second, the second not included in the first, and the
\* first dense slot of the second holding an element the first lacks.
C9_Witness ==
  \E i, j \in Insts :
    /\ sets[i].m_capacity < sets[j].m_capacity
    /\ sets[i].m_element_num >= 1
    /\ leq(sets[i], sets[j])
    /\ ~leq(sets[j], sets[i])
    /\ sets[j].m_dense[0] \notin ElemSet(sets[i])

\* C10: leq is a partial order with equals as its equality: reflexive,
\* antisymmetric up to equals, transitive; and two instances with the same
\* elements are equals whatever their dense orders and capacities.
C10_LeqPartialOrder ==
  \A i, j, k \in Insts :
    /\ leq(sets[i], sets[i])
    /\ leq(sets[i], sets[j]) /\ leq(sets[j], sets[i]) => equals(sets[i], sets[j])
    /\ leq(sets[i], sets[j]) /\ leq(sets[j], sets[k]) => leq(sets[i], sets[k])
    /\ ElemSet(sets[i]) = ElemSet(sets[j]) => equals(sets[i], sets[j])

\* C10 witness: three instances in a chain A <= B <= C where A is strictly
\* smaller and of smaller capacity, and B and C hold the same two elements
\* in different dense orders.
C10_Witness ==
  \E i, j, k \in Insts :
    /\ leq(sets[i], sets[j]) /\ leq(sets[j], sets[k])
    /\ sets[i].m_element_num = 1
    /\ sets[i].m_capacity < sets[j].m_capacity
    /\ ~leq(sets[j], sets[i])
    /\ sets[j].m_element_num = 2
    /\ equals(sets[j], sets[k])
    /\ elements(sets[j]) # elements(sets[k])

(***************************************************************************)
(* Capacity over the lifetime of an instance.                              *)
(***************************************************************************)

AnyOp == {"add", "remove", "clear", "join_with", "widen_with", "meet_with", "narrow_with"}

\* C11: no operation decreases the capacity of an instance, and the capacity
\* changes only in a join_with or widen_with whose operand has a strictly
\* larger capacity; every other call leaves it as it was.
C11_CapacityOnlyGrowsInJoin ==
  IsOp(AnyOp) =>
    /\ Post.m_capacity >= Pre.m_capacity
    /\ Post.m_capacity # Pre.m_capacity =>
         IsOp({"join_with", "widen_with"}) /\ Operand.m_capacity > Pre.m_capacity
    /\ IsOp({"join_with", "widen_with"}) /\ Operand.m_capacity <= Pre.m_capacity =>
         Post.m_capacity = Pre.m_capacity

\* C11 witness: a join_with whose operand has a smaller capacity than the
\* non-empty receiver and brings an element the receiver lacked: the
\* receiver changes and keeps its capacity.
C11_Witness ==
  /\ IsOp({"join_with"})
  /\ Operand.m_capacity < Pre.m_capacity
  /\ Operand.m_capacity > 0
  /\ Pre.m_element_num >= 1
  /\ Post.m_element_num > Pre.m_element_num
  /\ Post.m_capacity = Pre.m_capacity

(***************************************************************************)
(* Algebra of join_with and add.                                           *)
(***************************************************************************)

\* A.join_with(B) on copies of two instances.
Joined(a, b) == join_with(a, b, FALSE)

\* C13: join_with is commutative and associative on element sets: A joined
\* with B and B joined with A have the same elements and the same capacity
\* and are equals both ways; (A join B) join C has the elements of
\* A join (B join C).
C13_JoinCommutativeAssociative ==
  \A i, j, k \in Insts :
    LET ab == Joined(sets[i], sets[j])
        ba == Joined(sets[j], sets[i])
    IN  /\ ElemSet(ab) = ElemSet(ba)
        /\ ab.m_capacity = ba.m_capacity
        /\ equals(ab, ba) /\ equals(ba, ab)
        /\ ElemSet(Joined(ab, sets[k]))
             = ElemSet(Joined(sets[i], Joined(sets[j], sets[k])))
        /\ Joined(ab, sets[k]).m_capacity
             = Joined(sets[i], Joined(sets[j], sets[k])).m_capacity

\* C13 witness: three instances, two of them non-empty, of different
\* capacities and neither included in the other, whose two joins list the
\* elements in different dense orders; the third is non-empty too.
C13_Witness ==
  \E i, j, k \in Insts :
    /\ i # j /\ j # k /\ i # k
    /\ sets[i].m_capacity # sets[j].m_capacity
    /\ ~leq(sets[i], sets[j]) /\ ~leq(sets[j], sets[i])
    /\ sets[k].m_element_num >= 1
    /\ elements(Joined(sets[i], sets[j])) # elements(Joined(sets[j], sets[i]))
    /\ equals(Joined(sets[i], sets[j]), Joined(sets[j], sets[i]))

\* C14: add is idempotent: from every reachable state and for every e, a
\* second add(e) leaves the instance exactly as the first add(e) left it
\* (element set, count, dense order, both arrays).
C14_AddIdempotent ==
  \A i \in Insts, e \in Elems :
    LET once == add(sets[i], e)
        twice == add(once, e)
    IN  /\ twice = once
        /\ elements(twice) = elements(once)
        /\ ElemSet(twice) = ElemSet(once)
        /\ ~once.ub

\* C14 witness: an instance where add(e) inserts an absent element whose
\* stale sparse entry names a valid slot, next to an element f that add put
\* in the last valid slot and that a further add(f) leaves alone.
C14_Witness ==
  \E i \in Insts, e, f \in Elems :
    /\ e < sets[i].m_capacity /\ f < sets[i].m_capacity
    /\ ~contains(sets[i], e)
    /\ sets[i].m_sparse[e] < sets[i].m_element_num
    /\ add(sets[i], e) # sets[i]
    /\ add(add(sets[i], e), e) = add(sets[i], e)
    /\ sets[i].m_dense[sets[i].m_element_num - 1] = f
    /\ add(sets[i], f) = sets[i]

(***************************************************************************)
(* The default-constructed representation.                                 *)
(***************************************************************************)

\* C18: an instance of capacity 0 is as the default constructor made it:
\* it contains nothing and has size 0; add, remove and clear leave it so
\* without touching an array; it leaves capacity 0 only through a join_with
\* or widen_with whose operand has a non-zero capacity, and then it holds
\* exactly the elements of that operand.
C18_DefaultInstanceDropsAdds ==
  /\ \A i \in Insts :
       sets[i].m_capacity = 0 =>
         /\ sets[i] = DefaultValue
         /\ size(sets[i]) = 0
         /\ \A e \in Elems : ~contains(sets[i], e)
  /\ IsOp({"add", "remove", "clear"}) /\ Pre.m_capacity = 0 => Post = DefaultValue
  /\ IsOp(AnyOp) /\ Pre.m_capacity = 0 /\ Post # Pre =>
       IsOp({"join_with", "widen_with"}) /\ Operand.m_capacity > 0
  /\ IsOp({"join_with", "widen_with"}) /\ Pre.m_capacity = 0 =>
       /\ ElemSet(Post) = ElemSet(Operand)
       /\ elements(Post) = elements(Operand)
       /\ Post.m_capacity = Operand.m_capacity
       /\ ~Post.ub

\* C18 witness: a capacity-0 instance, which add(0) leaves as it is, has
\* just been joined with an operand holding two elements and holds them.
C18_Witness ==
  /\ IsOp({"join_with"})
  /\ Pre = DefaultValue
  /\ Operand.m_element_num = 2
  /\ Post.m_element_num = 2
  /\ add(Pre, 0) = Pre

(***************************************************************************)
(* Frame of add and remove.                                                *)
(***************************************************************************)

\* C19: add(e) and remove(e) change the membership of e only: every other
\* element f is contained after the call iff it was contained before, from
\* every reachable state.
C19_AddRemoveTouchOnlyTheElement ==
  /\ IsOp({"add", "remove"}) =>
       \A f \in Elems \ {last.element} : contains(Post, f) <=> contains(Pre, f)
  /\ \A i \in Insts, e \in Elems :
       \A f \in Elems \ {e} :
         /\ contains(add(sets[i], e), f) <=> contains(sets[i], f)
         /\ contains(remove(sets[i], e), f) <=> contains(sets[i], f)

\* C19 witness: remove(e) has just taken out an element that was not in the
\* last valid slot, so the last element was moved into its slot and is
\* still contained.
C19_Witness ==
  /\ IsOp({"remove"})
  /\ contains(Pre, last.element)
  /\ Pre.m_dense[Pre.m_element_num - 1] # last.element
  /\ contains(Post, Pre.m_dense[Pre.m_element_num - 1])
  /\ Post.m_dense[Pre.m_sparse[last.element]] = Pre.m_dense[Pre.m_element_num - 1]
  /\ ~contains(Post, last.element)

(***************************************************************************)
(* Iterating widen_with: X (instance 1) is only ever widened with the      *)
(* operand (instance 2); between two steps the operand is any set of any   *)
(* capacity up to chain.bound.                                             *)
(***************************************************************************)

InitWiden ==
  /\ sets \in [Pair -> Fresh]
  /\ last = NoOp
  /\ kind = [i \in Pair |-> "Value"]
  /\ chain \in [changes : {0}, bound : 0 .. MaxCap]
  /\ loop = Idle
  /\ sets[2].m_capacity <= chain.bound

\* X := X.widen_with(operand), counting the steps that change X's elements.
ChainWiden ==
  /\ sets' = [sets EXCEPT ![1] = widen_with(sets[1], sets[2], FALSE)]
  /\ Recorded("widen_with", 1, 2, 0)
  /\ chain' = [chain EXCEPT !.changes =
                  IF ElemSet(sets'[1]) # ElemSet(sets[1]) THEN @ + 1 ELSE @]
  /\ UNCHANGED <<kind, loop>>

\* The next operand is a new instance of capacity c.
OperandNew(c) ==
  /\ c <= chain.bound
  /\ sets' = [sets EXCEPT ![2] = NewValue(c)]
  /\ Record("SparseSetValue", 2, 0, c)

NextWiden ==
  \/ ChainWiden
  \/ \E c \in 0 .. MaxCap : OperandNew(c)
  \/ \E e \in Elems : Add(2, e)
  \/ \E e \in Elems : Remove(2, e)
  \/ Clear(2)

SpecWiden == InitWiden /\ [][NextWiden]_vars

\* C12: in an iteration X := X.widen_with(operand) over operands of
\* capacity at most C, X's element set changes at most C times; every step
\* gives what join_with gives and leaves operand.leq(X) true, and a step
\* that adds nothing leaves X equal to its previous value.
C12_WidenChainStabilises ==
  /\ chain.changes <= chain.bound
  /\ IsOp({"widen_with"}) =>
       /\ Post = join_with(Pre, Operand, FALSE)
       /\ leq(Operand, Post)
       /\ ElemSet(Pre) \subseteq ElemSet(Post)
       /\ ElemSet(Post) = ElemSet(Pre) => equals(Post, Pre) /\ equals(Pre, Post)

\* C12 witness: X has changed as often as the bound allows, over at least
\* two changes, and the widen_with just made with a non-empty operand left
\* it as it was.
C12_Witness ==
  /\ IsOp({"widen_with"})
  /\ chain.bound >= 2
  /\ chain.changes = chain.bound
  /\ Operand.m_element_num >= 1
  /\ Post = Pre
  /\ leq(Operand, Post)

(***************************************************************************)
(* SparseSetAbstractDomain: a kind (Bottom, Top or Value) around one       *)
(* SparseSetValue.  A domain is a record [kind, value]; domain i of the    *)
(* state is kind[i] around sets[i].                                        *)
(***************************************************************************)

\* kind()
kind_of(s) == "Value"

\* The kind join_with() returns.
join_with_kind(s, other, alias) == "Value"

\* The kind widen_with() returns.
widen_with_kind(s, other, alias) == join_with_kind(s, other, alias)

\* The kind meet_with() would return for reporting an empty result as Bottom.
meet_with_kind_empty_is_bottom(s, other, alias) ==
  IF meet_with(s, other, alias).m_element_num = 0 THEN "Bottom" ELSE "Value"

\* The kind meet_with() returns.
meet_with_kind(s, other, alias) == "Value"

\* The kind narrow_with() returns.
narrow_with_kind(s, other, alias) == meet_with_kind(s, other, alias)

\* SparseSetAbstractDomain::bottom()
DomBottom == [kind |-> "Bottom", value |-> DefaultValue]

\* SparseSetAbstractDomain::top()
DomTop == [kind |-> "Top", value |-> DefaultValue]

\* SparseSetAbstractDomain(max_size)
DomValue(max_size) == [kind |-> kind_of(NewValue(max_size)), value |-> NewValue(max_size)]

\* leq that takes a Value with an empty set for the least element.
dom_leq_empty_is_least(a, b) ==
  IF a.kind = "Bottom" THEN TRUE
  ELSE IF b.kind = "Top" THEN TRUE
  ELSE IF a.kind = "Top" THEN FALSE
  ELSE IF b.kind = "Bottom" THEN a.value.m_element_num = 0
  ELSE leq(a.value, b.value)

\* leq of two domains.
dom_leq(a, b) ==
  IF a.kind = "Bottom" THEN TRUE
  ELSE IF b.kind = "Top" THEN TRUE
  ELSE IF a.kind = "Top" THEN FALSE
  ELSE IF b.kind = "Bottom" THEN FALSE
  ELSE leq(a.value, b.value)

\* equals of two domains.
dom_equals(a, b) ==
  /\ a.kind = b.kind
  /\ a.kind = "Value" => equals(a.value, b.value)

\* join that leaves a Bottom receiver at Bottom.
dom_join_bottom_stays(a, b, alias) ==
  IF a.kind = "Top" \/ b.kind = "Top" THEN DomTop
  ELSE IF b.kind = "Bottom" \/ a.kind = "Bottom" THEN a
  ELSE [kind |-> join_with_kind(a.value, b.value, alias),
        value |-> join_with(a.value, b.value, alias)]

\* join of two domains: the receiver after a.join_with(b).
dom_join(a, b, alias) ==
  IF a.kind = "Top" \/ b.kind = "Top" THEN DomTop
  ELSE IF b.kind = "Bottom" THEN a
  ELSE IF a.kind = "Bottom" THEN b
  ELSE [kind |-> join_with_kind(a.value, b.value, alias),
        value |-> join_with(a.value, b.value, alias)]

\* widen of two domains.
dom_widen(a, b, alias) ==
  IF a.kind = "Top" \/ b.kind = "Top" THEN DomTop
  ELSE IF b.kind = "Bottom" THEN a
  ELSE IF a.kind = "Bottom" THEN b
  ELSE [kind |-> widen_with_kind(a.value, b.value, alias),
        value |-> widen_with(a.value, b.value, alias)]

\* meet of two domains.
dom_meet(a, b, alias) ==
  IF a.kind = "Bottom" \/ b.kind = "Bottom" THEN DomBottom
  ELSE IF b.kind = "Top" THEN a
  ELSE IF a.kind = "Top" THEN b
  ELSE [kind |-> meet_with_kind(a.value, b.value, alias),
        value |-> meet_with(a.value, b.value, alias)]

\* narrow of two domains.
dom_narrow(a, b, alias) ==
  IF a.kind = "Bottom" \/ b.kind = "Bottom" THEN DomBottom
  ELSE IF b.kind = "Top" THEN a
  ELSE IF a.kind = "Top" THEN b
  ELSE [kind |-> narrow_with_kind(a.value, b.value, alias),
        value |-> narrow_with(a.value, b.value, alias)]

\* Domain i of the state.
Dom(i) == [kind |-> kind[i], value |-> sets[i]]

\* A freshly made domain: bottom(), top() or a Value of a given universe.
FreshDom == {DomBottom, DomTop} \cup {DomValue(c) : c \in 0 .. MaxCap}

InitDomain ==
  /\ \E d \in [Pair -> FreshDom] :
       /\ sets = [i \in Pair |-> d[i].value]
       /\ kind = [i \in Pair |-> d[i].kind]
  /\ last = Unrecorded
  /\ chain = NoChain
  /\ loop = Idle

\* Domain i becomes d.
Becomes(i, d) ==
  /\ sets' = [sets EXCEPT ![i] = d.value]
  /\ kind' = [kind EXCEPT ![i] = d.kind]
  /\ UNCHANGED <<last, chain, loop>>

\* add and remove are forwarded to the representation of a Value.
DomAdd(i, e) == kind[i] = "Value" /\ Add(i, e)

DomRemove(i, e) == kind[i] = "Value" /\ Remove(i, e)

DomJoin(i, j) == Becomes(i, dom_join(Dom(i), Dom(j), i = j))

DomWiden(i, j) == Becomes(i, dom_widen(Dom(i), Dom(j), i = j))

DomMeet(i, j) == Becomes(i, dom_meet(Dom(i), Dom(j), i = j))

DomNarrow(i, j) == Becomes(i, dom_narrow(Dom(i), Dom(j), i = j))

\* The explicit resets.
SetToTop(i) == Becomes(i, DomTop)

SetToBottom(i) == Becomes(i, DomBottom)

NextDomain ==
  \/ \E i \in Insts, e \in Elems : DomAdd(i, e)
  \/ \E i \in Insts, e \in Elems : DomRemove(i, e)
  \/ \E i \in Insts, j \in Insts : DomJoin(i, j)
  \/ \E i \in Insts, j \in Insts : DomWiden(i, j)
  \/ \E i \in Insts, j \in Insts : DomMeet(i, j)
  \/ \E i \in Insts, j \in Insts : DomNarrow(i, j)
  \/ \E i \in Insts : SetToTop(i)
  \/ \E i \in Insts : SetToBottom(i)

SpecDomain == InitDomain /\ [][NextDomain]_vars

\* C15: the order of domains over the three kinds: Bottom.leq(X) for every
\* X; X.leq(Top) for every X; not Top.leq(X) for a non-Top X; not
\* Value.leq(Bottom), also for a Value with an empty set; and for two
\* Values, leq of the two representations.
C15_DomainOrder ==
  \A i, j \in Insts :
    LET a == Dom(i)
        b == Dom(j)
    IN  /\ a.kind = "Bottom" => dom_leq(a, b)
        /\ b.kind = "Top" => dom_leq(a, b)
        /\ a.kind = "Top" /\ b.kind # "Top" => ~dom_leq(a, b)
        /\ a.kind = "Value" /\ b.kind = "Bottom" => ~dom_leq(a, b)
        /\ a.kind = "Value" /\ b.kind = "Value" =>
             (dom_leq(a, b) <=> leq(a.value, b.value))
        /\ dom_leq(DomBottom, a) /\ dom_leq(a, DomTop)
        /\ ~dom_leq(DomTop, DomBottom)

\* C15 witness: a Value whose set has been emptied (a stale dense slot
\* still holds an element) next to a Bottom: the Value is not leq Bottom
\* while Bottom is leq the Value.
C15_Witness ==
  \E i, j \in Insts :
    /\ kind[i] = "Value" /\ kind[j] = "Bottom"
    /\ sets[i].m_element_num = 0
    /\ \E l \in DOMAIN sets[i].m_dense : sets[i].m_dense[l] # 0
    /\ ~dom_leq(Dom(i), Dom(j))
    /\ dom_leq(Dom(j), Dom(i))

\* The four combinators of domains taken with their names.
DomOps == {"join", "widen", "meet", "narrow"}

DomApply(op, a, b, alias) ==
  CASE op = "join" -> dom_join(a, b, alias)
    [] op = "widen" -> dom_widen(a, b, alias)
    [] op = "meet" -> dom_meet(a, b, alias)
    [] op = "narrow" -> dom_narrow(a, b, alias)

\* C16: with a Top or Bottom operand, join and widen give Top when either
\* side is Top and the other side when one side is Bottom; meet and narrow
\* give Bottom when either side is Bottom and the other side when one side
\* is Top.
C16_TopBottomOperands ==
  \A i, j \in Insts :
    LET a == Dom(i)
        b == Dom(j)
    IN  /\ \A op \in {"join", "widen"} :
             LET r == DomApply(op, a, b, i = j)
             IN  /\ a.kind = "Top" \/ b.kind = "Top" => r.kind = "Top"
                 /\ a.kind = "Bottom" => dom_equals(r, b) /\ dom_equals(b, r)
                 /\ b.kind = "Bottom" => dom_equals(r, a) /\ dom_equals(a, r)
        /\ \A op \in {"meet", "narrow"} :
             LET r == DomApply(op, a, b, i = j)
             IN  /\ a.kind = "Bottom" \/ b.kind = "Bottom" => r.kind = "Bottom"
                 /\ a.kind = "Top" => dom_equals(r, b) /\ dom_equals(b, r)
                 /\ b.kind = "Top" => dom_equals(r, a) /\ dom_equals(a, r)

\* C16 witness: a Bottom and a Value holding two elements: the join of
\* Bottom with the Value and the meet of Top with the Value are that Value.
C16_Witness ==
  \E i, j \in Insts :
    /\ kind[i] = "Bottom" /\ kind[j] = "Value"
    /\ sets[j].m_element_num = 2
    /\ dom_join(Dom(i), Dom(j), FALSE) = Dom(j)
    /\ dom_equals(dom_meet(DomTop, Dom(j), FALSE), Dom(j))

\* C17: a Value stays a Value through add, remove, join, widen, meet and
\* narrow against a Value: the four combinators of the representation and
\* kind() report Value, also when the set has become empty, and such a
\* Value is not equal to Bottom.
C17_ValueKeepsItsKind ==
  \A i, j \in Insts :
    LET a == Dom(i)
        b == Dom(j)
    IN  a.kind = "Value" =>
          /\ kind_of(a.value) = "Value"
          /\ \A e \in Elems :
               /\ kind_of(add(a.value, e)) = "Value"
               /\ kind_of(remove(a.value, e)) = "Value"
          /\ ~dom_equals(a, DomBottom) /\ ~dom_equals(DomBottom, a)
          /\ b.kind = "Value" =>
               \A op \in DomOps :
                 /\ DomApply(op, a, b, i = j).kind = "Value"
                 /\ ~dom_equals(DomApply(op, a, b, i = j), DomBottom)

\* C17 witness: two non-empty Values with no element in common: their meet
\* is a Value of size 0.
C17_Witness ==
  \E i, j \in Insts :
    /\ kind[i] = "Value" /\ kind[j] = "Value"
    /\ sets[i].m_element_num >= 1 /\ sets[j].m_element_num >= 1
    /\ dom_meet(Dom(i), Dom(j), FALSE).kind = "Value"
    /\ dom_meet(Dom(i), Dom(j), FALSE).value.m_element_num = 0

(***************************************************************************)
(* The loop of meet_with, one iteration at a time.  loop holds the cursor  *)
(* (it), the number of iterations made, the count on entry, the cursor and *)
(* count before the last iteration, and the receiver on entry.             *)
(***************************************************************************)

\* One iteration of the loop advancing the cursor after a removal as well.
meet_iter_advance(s, other, alias, it) ==
  LET o == IF alias THEN s ELSE other
  IN  IF ~contains(o, s.m_dense[it])
      THEN [s |-> remove(s, s.m_dense[it]), it |-> it + 1]
      ELSE [s |-> s, it |-> it + 1]

\* One iteration of the loop of meet_with: the receiver and the cursor after.
meet_iter(s, other, alias, it) ==
  LET o == IF alias THEN s ELSE other
  IN  IF ~contains(o, s.m_dense[it])
      THEN [s |-> remove(s, s.m_dense[it]), it |-> it]
      ELSE [s |-> s, it |-> it + 1]

InitMeet ==
  /\ sets \in [Pair -> Fresh]
  /\ last = Unrecorded
  /\ Bare(Pair)

\* A call made while no meet_with is in progress: instance i becomes s.
Outside(i, s) ==
  /\ loop.phase # "running"
  /\ sets' = [sets EXCEPT ![i] = s]
  /\ loop' = Idle
  /\ UNCHANGED <<last, kind, chain>>

\* sets[i].meet_with(sets[j]) is entered: it = begin().
MeetBegin(i, j) ==
  /\ loop.phase # "running"
  /\ loop' = [phase |-> "running", self |-> i, other |-> j, it |-> 0, iters |-> 0,
              entry |-> sets[i].m_element_num, pit |-> 0,
              pcount |-> sets[i].m_element_num, pre |-> sets[i]]
  /\ UNCHANGED <<sets, last, kind, chain>>

\* One iteration: it != end().
MeetIter ==
  /\ loop.phase = "running"
  /\ loop.it # sets[loop.self].m_element_num
  /\ LET r == meet_iter(sets[loop.self], sets[loop.other], loop.self = loop.other, loop.it)
     IN  /\ sets' = [sets EXCEPT ![loop.self] = r.s]
         /\ loop' = [loop EXCEPT !.it = r.it, !.iters = @ + 1, !.pit = loop.it,
                                 !.pcount = sets[loop.self].m_element_num]
  /\ UNCHANGED <<last, kind, chain>>

\* it == end(): the loop is left and meet_with returns.
MeetReturn ==
  /\ loop.phase = "running"
  /\ loop.it = sets[loop.self].m_element_num
  /\ loop' = [loop EXCEPT !.phase = "done"]
  /\ UNCHANGED <<sets, last, kind, chain>>

NextMeet ==
  \/ \E i \in Insts, e \in Elems : Outside(i, add(sets[i], e))
  \/ \E i \in Insts, e \in Elems : Outside(i, remove(sets[i], e))
  \/ \E i \in Insts : Outside(i, clear(sets[i]))
  \/ \E i \in Insts, j \in Insts : Outside(i, join_with(sets[i], sets[j], i = j))
  \/ \E i \in Insts, j \in Insts : MeetBegin(i, j)
  \/ MeetIter
  \/ MeetReturn

SpecMeet == InitMeet /\ [][NextMeet]_vars

\* The operand of the meet_with in progress as it was on entry.
LoopOperand == IF loop.other = loop.self THEN loop.pre ELSE sets[loop.other]

\* C20: in every state of the loop of meet_with the cursor is at most the
\* count; every iteration either advances the cursor by one or shrinks the
\* count by one; the loop makes exactly as many iterations as the set had
\* elements on entry and then returns what meet_with returns, which for the
\* receiver as its own operand is the receiver unchanged.
C20_MeetLoopBounded ==
  loop.phase \in {"running", "done"} =>
    LET s == sets[loop.self]
    IN  /\ 0 <= loop.it /\ loop.it <= s.m_element_num
        /\ loop.it < s.m_element_num => loop.it \in DOMAIN s.m_dense
        /\ ~s.ub
        /\ loop.iters <= loop.entry
        /\ loop.iters = loop.it + (loop.entry - s.m_element_num)
        /\ loop.iters > 0 =>
             \/ loop.it = loop.pit + 1 /\ s.m_element_num = loop.pcount
             \/ loop.it = loop.pit /\ s.m_element_num = loop.pcount - 1
        /\ loop.phase = "done" =>
             /\ loop.iters = loop.entry
             /\ s = meet_with(loop.pre, LoopOperand, loop.self = loop.other)
             /\ ElemSet(s) = ElemSet(loop.pre) \cap ElemSet(LoopOperand)
             /\ loop.self = loop.other => s = loop.pre

\* C20 witness: a meet_with entered with two elements has returned after
\* two iterations that both removed an element: the cursor stayed at 0.
C20_Witness ==
  /\ loop.phase = "done"
  /\ loop.self # loop.other
  /\ loop.entry = 2
  /\ loop.iters = 2
  /\ loop.it = 0
  /\ sets[loop.self].m_element_num = 0

====
